---- MODULE Spec2Model ----
(***************************************************************************)
(* bevy_noisy_shapes: the plane and sphere mesh builders.                  *)
(*                                                                         *)
(* State: the shape or builder value the caller holds (`builder`), the     *)
(* value returned by the call just made when that call was build()         *)
(* (`mesh`), the build profile the crate was compiled with (`profile`:     *)
(* integer overflow panics in a debug build and wraps in a release build)  *)
(* and the log of the arguments last passed to each configuration call     *)
(* (`lastSet`).                                                            *)
(*                                                                         *)
(* f32 values are modelled as exact rationals <<numerator, denominator>>   *)
(* plus NaN; u32 values as their four bytes, least significant first.      *)
(***************************************************************************)
EXTENDS Integers, Sequences, FiniteSets, TLC

VARIABLES builder, mesh, profile, lastSet

vars == <<builder, mesh, profile, lastSet>>

-----------------------------------------------------------------------------
(* Bounds of the model *)

\* plane subdivision counts 0..MaxSubdivisions are enumerated (and u32::MAX)
MaxSubdivisions == 2

\* sphere subdivision levels 0..MaxSphereSubdivisions are enumerated (and the default)
MaxSphereSubdivisions == 1

-----------------------------------------------------------------------------
(* f32 as exact rationals *)

NaN == <<0, 0>>

IsNaN(a) == a[2] = 0

Abs(i) == IF i < 0 THEN -i ELSE i

RECURSIVE GCD(_, _)
GCD(a, b) == IF b = 0 THEN a ELSE GCD(b, a % b)

\* the rational n/d in lowest terms with a positive denominator
Norm(n, d) ==
    IF d = 0 THEN NaN
    ELSE LET g == GCD(Abs(n), Abs(d))
             s == IF d < 0 THEN -1 ELSE 1
         IN  <<(s * n) \div g, (s * d) \div g>>

F(i) == <<i, 1>>

Q(n, d) == Norm(n, d)

FAdd(a, b) == IF IsNaN(a) \/ IsNaN(b) THEN NaN ELSE Norm(a[1] * b[2] + b[1] * a[2], a[2] * b[2])

FSub(a, b) == IF IsNaN(a) \/ IsNaN(b) THEN NaN ELSE Norm(a[1] * b[2] - b[1] * a[2], a[2] * b[2])

FMul(a, b) == IF IsNaN(a) \/ IsNaN(b) THEN NaN ELSE Norm(a[1] * b[1], a[2] * b[2])

\* f32 division: 0.0 / 0.0 is NaN.  (A non-zero value is never divided by
\* zero in build(): the only zero divisor is n - 1 = 0, and then x = z = 0.)
FDiv(a, b) == IF IsNaN(a) \/ IsNaN(b) \/ b[1] = 0 THEN NaN ELSE Norm(a[1] * b[2], a[2] * b[1])

\* Rust's `%` on f32: the remainder of the truncated division, which has
\* the sign of the dividend
FRem(a, b) ==
    IF IsNaN(a) \/ IsNaN(b) \/ b[1] = 0 THEN NaN
    ELSE LET n == a[1] * b[2]
             m == Abs(b[1] * a[2])
             r == IF n >= 0 THEN n % m ELSE -((-n) % m)
         IN  Norm(r, a[2] * b[2])

FLe(a, b) == ~IsNaN(a) /\ ~IsNaN(b) /\ a[1] * b[2] <= b[1] * a[2]

FLt(a, b) == ~IsNaN(a) /\ ~IsNaN(b) /\ a[1] * b[2] < b[1] * a[2]

FAbs(a) == <<Abs(a[1]), a[2]>>

FFloor(a) == a[1] \div a[2]

RECURSIVE ISqrtFrom(_, _)
ISqrtFrom(n, k) == IF (k + 1) * (k + 1) > n THEN k ELSE ISqrtFrom(n, k + 1)

\* f32 sqrt, exact on the squares of rationals (all that length() meets here)
FSqrt(a) == IF IsNaN(a) \/ a[1] < 0 THEN NaN ELSE Norm(ISqrtFrom(a[1], 0), ISqrtFrom(a[2], 0))

-----------------------------------------------------------------------------
(* u32 as four bytes; sums and products as nine bytes, so that nothing is  *)
(* lost before the wrap is decided                                         *)

WideBytes == 9

\* the bytes of a natural below 2^31
Bytes(n) == [i \in 1..WideBytes |->
              CASE i = 1 -> n % 256
                [] i = 2 -> (n \div 256) % 256
                [] i = 3 -> (n \div 65536) % 256
                [] i = 4 -> (n \div 16777216) % 256
                [] OTHER -> 0]

RECURSIVE Carry(_, _, _)
\* propagate carries through the column sums c from column i on
Carry(c, i, carry) ==
    IF i > WideBytes THEN <<>>
    ELSE <<(c[i] + carry) % 256>> \o Carry(c, i + 1, (c[i] + carry) \div 256)

BigAdd(a, b) == Carry([i \in 1..WideBytes |-> a[i] + b[i]], 1, 0)

RECURSIVE ColumnSum(_, _, _, _)
ColumnSum(a, b, k, i) ==
    IF i > k THEN 0 ELSE a[i] * b[k + 1 - i] + ColumnSum(a, b, k, i + 1)

BigMul(a, b) == Carry([k \in 1..WideBytes |-> ColumnSum(a, b, k, 1)], 1, 0)

\* does the value fit a u32
FitsU32(a) == \A i \in 5..WideBytes : a[i] = 0

\* the value modulo 2^32
WrapU32(a) == [i \in 1..WideBytes |-> IF i <= 4 THEN a[i] ELSE 0]

IsZero(a) == \A i \in 1..WideBytes : a[i] = 0

\* 2^32 - 1
U32Max == [i \in 1..WideBytes |-> IF i <= 4 THEN 255 ELSE 0]

\* a - 1 for a > 0
RECURSIVE Borrow(_, _)
Borrow(a, i) ==
    IF i > WideBytes THEN <<>>
    ELSE IF a[i] > 0 THEN <<a[i] - 1>> \o [j \in 1..(WideBytes - i) |-> a[i + j]]
    ELSE <<255>> \o Borrow(a, i + 1)

BigPred(a) == Borrow(a, 1)

\* the natural a value below 2^31 stands for
ToNat(a) == a[1] + 256 * a[2] + 65536 * a[3] + 16777216 * a[4]

IsSmall(a) == FitsU32(a) /\ a[4] < 128

-----------------------------------------------------------------------------
(* u32 arithmetic of the build: the wrapped value and whether it overflowed *)

U32Add(a, b) ==
    LET s == BigAdd(a, b) IN [val |-> WrapU32(s), overflow |-> ~FitsU32(s)]

U32Mul(a, b) ==
    LET s == BigMul(a, b) IN [val |-> WrapU32(s), overflow |-> ~FitsU32(s)]

U32Dec(a) ==
    IF IsZero(a) THEN [val |-> U32Max, overflow |-> TRUE]
    ELSE [val |-> BigPred(a), overflow |-> FALSE]

-----------------------------------------------------------------------------
(* Vectors *)

Vec2Zero == <<F(0), F(0)>>

Vec3Zero == <<F(0), F(0), F(0)>>

Vec2Scale(v, k) == <<FMul(v[1], k), FMul(v[2], k)>>

Vec3Scale(v, k) == <<FMul(v[1], k), FMul(v[2], k), FMul(v[3], k)>>

Vec3Sub(a, b) == <<FSub(a[1], b[1]), FSub(a[2], b[2]), FSub(a[3], b[3])>>

Vec3Add(a, b) == <<FAdd(a[1], b[1]), FAdd(a[2], b[2]), FAdd(a[3], b[3])>>

Vec3Length(v) ==
    FSqrt(FAdd(FAdd(FMul(v[1], v[1]), FMul(v[2], v[2])), FMul(v[3], v[3])))

\* Quat::from_rotation_arc(Vec3::Y, normal) * v, for the axis directions:
\* Y is the identity, X turns a quarter about -Z, Z a quarter about +X
Rotate(normal, v) ==
    CASE normal = "Y" -> v
      [] normal = "X" -> <<v[2], FSub(F(0), v[1]), v[3]>>
      [] normal = "Z" -> <<v[1], FSub(F(0), v[3]), v[2]>>

\* Color::hsl(hue, saturation, lightness); the conversion to an sRGB
\* quadruple is bevy_color's and keeps one entry per call
Hsl(hue, saturation, lightness) ==
    [hue |-> hue, saturation |-> saturation, lightness |-> lightness]

-----------------------------------------------------------------------------
(* The noise collaborator: pure functions of the coordinate.  "None"       *)
(* samples 0 everywhere; "Low" and "High" stand for configured noise, as   *)
(* lattice functions with amplitude 3/4 and 3/2.                           *)

Samplers == {"None", "Low", "High"}

Lattice(cells) == (cells % 7) - 3

Amplitude(sampler, h) == IF sampler = "Low" THEN Q(h, 4) ELSE Q(h, 2)

Sample2d(sampler, c) ==
    IF sampler = "None" THEN F(0)
    ELSE IF IsNaN(c[1]) \/ IsNaN(c[2]) THEN NaN
    ELSE Amplitude(sampler,
            Lattice(3 * FFloor(FMul(F(4), c[1])) + 5 * FFloor(FMul(F(4), c[2])) + 1))

Sample3d(sampler, c) ==
    IF sampler = "None" THEN F(0)
    ELSE IF IsNaN(c[1]) \/ IsNaN(c[2]) \/ IsNaN(c[3]) THEN NaN
    ELSE Amplitude(sampler,
            Lattice(3 * FFloor(FMul(F(3), c[1])) + 5 * FFloor(FMul(F(3), c[2]))
                    + 2 * FFloor(FMul(F(3), c[3])) + 1))

-----------------------------------------------------------------------------
(* The plane builder: NoisyPlaneMeshBuilder::build                         *)

NoMesh == [tag |-> "none"]

Panicked == [tag |-> "panic"]

Normals == {"X", "Y", "Z"}

\* the u32 locals of build(): z_vertex_count = x_vertex_count, num_vertices,
\* num_indices, and whether any of the operations overflowed
PlaneCounts(b) ==
    LET n    == U32Add(b.subdivisions, Bytes(2))
        nv   == U32Mul(n.val, n.val)
        m    == U32Dec(n.val)
        mm   == U32Mul(m.val, m.val)
        ni   == U32Mul(mm.val, Bytes(6))
    IN  [x_vertex_count |-> n.val,
         num_vertices   |-> nv.val,
         num_indices    |-> ni.val,
         overflow       |-> n.overflow \/ nv.overflow \/ m.overflow
                              \/ mm.overflow \/ ni.overflow]

\* the body of the vertex loops for grid coordinate (x, z), n vertices per axis
PlaneVertex(b, n, x, z) ==
    LET size == Vec2Scale(b.plane.half_size, F(2))
        tx   == FDiv(F(x), F(n - 1))
        tz   == FDiv(F(z), F(n - 1))
        px   == FMul(FAdd(Q(-1, 2), tx), size[1])
        pz   == FMul(FAdd(Q(-1, 2), tz), size[2])
        py   == Sample2d(b.sampler, <<FAdd(b.offset[1], FMul(tx, size[1])),
                                      FAdd(b.offset[2], FMul(tz, size[2]))>>)
    IN  [pos   |-> Rotate(b.plane.normal, <<px, py, pz>>),
         uv    |-> <<tx, tz>>,
         color |-> Hsl(FRem(FMul(py, F(360)), F(360)), F(1), Q(1, 2))]

PushVertex(b, acc, v) ==
    [positions |-> Append(acc.positions, v.pos),
     uvs       |-> Append(acc.uvs, v.uv),
     colors    |-> IF b.vertex_colors THEN Append(acc.colors, v.color) ELSE acc.colors]

RECURSIVE PlaneVertexLoop(_, _, _, _, _)
\* for z in 0..n { for x in 0..n { ... } }, from (x, z) on
PlaneVertexLoop(b, n, z, x, acc) ==
    IF z >= n THEN acc
    ELSE IF x >= n THEN PlaneVertexLoop(b, n, z + 1, 0, acc)
    ELSE PlaneVertexLoop(b, n, z, x + 1, PushVertex(b, acc, PlaneVertex(b, n, x, z)))

\* the six pushes of one cell
PushQuad(indices, n, quad) ==
    indices \o <<quad + n + 1, quad + 1, quad + n, quad, quad + n, quad + 1>>

RECURSIVE PlaneIndexLoop(_, _, _, _)
\* for z in 0..n - 1 { for x in 0..n - 1 { ... } }, from (x, z) on
PlaneIndexLoop(n, z, x, indices) ==
    IF z >= n - 1 THEN indices
    ELSE IF x >= n - 1 THEN PlaneIndexLoop(n, z + 1, 0, indices)
    ELSE PlaneIndexLoop(n, z, x + 1, PushQuad(indices, n, z * n + x))

\* Mesh::new(...).with_inserted_indices(..).with_inserted_attribute(..),
\* the color attribute inserted only when vertex_colors is set
NewMesh(positions, uvs, colors, indices, vertex_colors) ==
    [tag        |-> "mesh",
     positions  |-> positions,
     uvs        |-> uvs,
     has_colors |-> vertex_colors,
     colors     |-> IF vertex_colors THEN colors ELSE <<>>,
     indices    |-> indices]

PlaneBuild(b, prof) ==
    LET c == PlaneCounts(b)
    IN  IF c.overflow /\ prof = "debug" THEN Panicked
        ELSE LET n   == ToNat(c.x_vertex_count)
                 acc == PlaneVertexLoop(b, n, 0, 0,
                            [positions |-> <<>>, uvs |-> <<>>, colors |-> <<>>])
                 idx == PlaneIndexLoop(n, 0, 0, <<>>)
             IN  NewMesh(acc.positions, acc.uvs, acc.colors, idx, b.vertex_colors)
                   @@ [num_vertices |-> c.num_vertices, num_indices |-> c.num_indices]

-----------------------------------------------------------------------------
(* The subdivision-base collaborator (hexasphere's Subdivided): an ordered  *)
(* sequence of unit points, one datum per point made by the callback, and  *)
(* for every base face a list of triangle indices of a fixed length.       *)

\* thirty unit vectors with rational coordinates: the six axis directions
\* and the twenty-four sign and position variants of (1, 2, 2) / 3
UnitPoint(i) ==
    IF i < 6
    THEN LET sgn == IF i % 2 = 0 THEN 1 ELSE -1
         IN  [k \in 1..3 |-> IF k = (i \div 2) + 1 THEN F(sgn) ELSE F(0)]
    ELSE LET j    == i - 6
             one  == (j \div 8) + 1
             bits == j % 8
         IN  [k \in 1..3 |->
                LET sgn == IF (bits \div (2 ^ (k - 1))) % 2 = 0 THEN 1 ELSE -1
                IN  Q(sgn * (IF k = one THEN 1 ELSE 2), 3)]

\* vertices + points on the edges + points inside the faces
NumRawPoints(shape, n) ==
    IF shape = "Cube" THEN 8 + 18 * n + 6 * n * (n - 1)
    ELSE 12 + 30 * n + 10 * n * (n - 1)

NumFaces(shape) == IF shape = "Cube" THEN 12 ELSE 20

IndicesPerMainTriangle(n) == 3 * (n + 1) * (n + 1)

\* the triangle list of base face f
FaceIndices(shape, n, f) ==
    LET points == NumRawPoints(shape, n)
        first  == f * (n + 1) * (n + 1)
    IN  [k \in 1..IndicesPerMainTriangle(n) |->
            (first + ((k - 1) \div 3) + ((k - 1) % 3)) % points]

-----------------------------------------------------------------------------
(* The sphere builder                                                      *)

\* the UV callback: [0.5 - atan2(z, x) / TAU, acos(y) / PI], kept as the
\* expressions over the point's coordinates
uv_transform(point) ==
    <<[value |-> "0.5 - atan2(z, x) / TAU", z |-> point[3], x |-> point[1]],
      [value |-> "acos(y) / PI", y |-> point[2]]>>

\* Subdivided::new(subdivisions, uv_transform) for the base shape
SubdividedNew(shape, subdivisions) ==
    LET points == [i \in 1..NumRawPoints(shape, subdivisions) |->
                      UnitPoint((i - 1 + (IF shape = "Cube" THEN 0 ELSE 7)) % 30)]
    IN  [raw_points |-> points,
         raw_data   |-> [i \in 1..Len(points) |-> uv_transform(points[i])],
         indices_per_main_triangle |-> IndicesPerMainTriangle(subdivisions),
         faces      |-> [f \in 1..NumFaces(shape) |-> FaceIndices(shape, subdivisions, f - 1)]]

\* sample_at with the deviation 0.2 of the radius-only variant
sample_at_deviation(point, noise, offset, radius) ==
    Vec3Scale(Vec3Scale(point, radius),
              FAdd(F(1), FMul(Sample3d(noise, Vec3Sub(point, offset)), Q(1, 5))))

\* sample_at with the offset moving the position as well
sample_at_moves_output(point, noise, offset, radius) ==
    Vec3Add(Vec3Scale(Vec3Scale(point, radius),
                      FAdd(F(1), Sample3d(noise, Vec3Sub(point, offset)))),
            offset)

sample_at(point, noise, offset, radius) ==
    Vec3Scale(Vec3Scale(point, radius), FAdd(F(1), Sample3d(noise, Vec3Sub(point, offset))))

\* `for &point in base.raw_points()`: one displaced point pushed per raw
\* point, in order
SpherePoints(b, raw_points) ==
    [i \in 1..Len(raw_points) |->
        sample_at(raw_points[i], b.sampler, b.offset, b.sphere.radius)]

\* and, when vertex_colors is set, one color pushed per point
SphereColors(b, points) ==
    IF b.vertex_colors
    THEN [i \in 1..Len(points) |->
            Hsl(FRem(FMul(Vec3Length(points[i]), F(360)), F(360)), F(1), Q(1, 2))]
    ELSE <<>>

\* base.get_indices(i, &mut indices): appends face i's list; a face the
\* base shape does not have is an index out of bounds
GetIndices(base, i, indices) ==
    IF ~indices.ok \/ i >= Len(base.faces) THEN [ok |-> FALSE, list |-> indices.list]
    ELSE [ok |-> TRUE, list |-> indices.list \o base.faces[i + 1]]

RECURSIVE SphereIndexLoop(_, _, _, _)
\* for i in 0..faces { base.get_indices(i, &mut indices) }, from i on
SphereIndexLoop(base, faces, i, indices) ==
    IF i >= faces THEN indices
    ELSE SphereIndexLoop(base, faces, i + 1, GetIndices(base, i, indices))

SphereMesh(b, base, faces) ==
    LET points  == SpherePoints(b, base.raw_points)
        colors  == SphereColors(b, points)
        indices == SphereIndexLoop(base, faces, 0, [ok |-> TRUE, list |-> <<>>])
    IN  IF ~indices.ok THEN Panicked
        ELSE NewMesh(points, base.raw_data, colors, indices.list, b.vertex_colors)

\* cube() with the cube's six square faces for the twelve triangles
SphereCube_six_faces(b, subdivisions) == SphereMesh(b, SubdividedNew("Cube", subdivisions), 6)

SphereCube(b, subdivisions) == SphereMesh(b, SubdividedNew("Cube", subdivisions), 12)

SphereIco(b, subdivisions) == SphereMesh(b, SubdividedNew("Ico", subdivisions), 20)

SphereBuild(b) ==
    IF b.kind.variant = "Cubed" THEN SphereCube(b, b.kind.subdivisions)
    ELSE SphereIco(b, b.kind.subdivisions)

-----------------------------------------------------------------------------
(* Values of the configuration calls' arguments                            *)

Lengths == {F(-1), F(0), F(1)}

Radii == {F(-1), F(0), Q(1, 2), F(7)}

Offsets2 == {Vec2Zero, <<Q(1, 2), Q(1, 4)>>}

Offsets3 == {Vec3Zero, <<F(1), F(0), Q(1, 2)>>, <<Q(-1, 3), F(2), F(0)>>}

SubdivisionCounts == {Bytes(s) : s \in 0..MaxSubdivisions} \cup {U32Max}

NoisySphereKindDefault == [variant |-> "Cubed", subdivisions |-> 5]

SphereKinds ==
    [variant : {"Cubed", "Ico"}, subdivisions : 0..MaxSphereSubdivisions]
      \cup {NoisySphereKindDefault}

-----------------------------------------------------------------------------
(* Constructors and defaults                                               *)

NoisyPlane3dDefault ==
    [type |-> "NoisyPlane3d", normal |-> "Y", half_size |-> <<Q(1, 2), Q(1, 2)>>]

PlaneOf(shape) == [normal |-> shape.normal, half_size |-> shape.half_size]

NoisyPlaneMeshBuilderDefault ==
    [type          |-> "NoisyPlaneMeshBuilder",
     plane         |-> PlaneOf(NoisyPlane3dDefault),
     subdivisions  |-> Bytes(0),
     sampler       |-> "None",
     offset        |-> Vec2Zero,
     vertex_colors |-> FALSE]

NoisyPlaneMeshBuilderNew(normal, size) ==
    [NoisyPlaneMeshBuilderDefault EXCEPT
        !.plane = [normal |-> normal, half_size |-> <<FDiv(size[1], F(2)), FDiv(size[2], F(2))>>]]

NoisyPlaneMeshBuilderFromSize(size) ==
    [NoisyPlaneMeshBuilderDefault EXCEPT
        !.plane = [PlaneOf(NoisyPlane3dDefault) EXCEPT
                      !.half_size = <<FDiv(size[1], F(2)), FDiv(size[2], F(2))>>]]

NoisyPlaneMeshBuilderFromLength(length) ==
    [NoisyPlaneMeshBuilderDefault EXCEPT
        !.plane = [PlaneOf(NoisyPlane3dDefault) EXCEPT
                      !.half_size = <<FDiv(length, F(2)), FDiv(length, F(2))>>]]

\* Meshable for NoisyPlane3d
NoisyPlane3dMesh(shape) == [NoisyPlaneMeshBuilderDefault EXCEPT !.plane = PlaneOf(shape)]

NoisySphereDefault == [type |-> "NoisySphere", radius |-> Q(1, 2)]

NoisySphereNew(radius) == [NoisySphereDefault EXCEPT !.radius = radius]

NoisySphereMeshBuilderDefault ==
    [type          |-> "NoisySphereMeshBuilder",
     kind          |-> NoisySphereKindDefault,
     sampler       |-> "None",
     sphere        |-> [radius |-> NoisySphereDefault.radius],
     offset        |-> Vec3Zero,
     vertex_colors |-> FALSE]

NoisySphereMeshBuilderNew(radius, kind) ==
    [NoisySphereMeshBuilderDefault EXCEPT
        !.kind = kind, !.sphere = [radius |-> NoisySphereNew(radius).radius]]

\* Meshable for NoisySphere
NoisySphereMesh(shape) ==
    [NoisySphereMeshBuilderDefault EXCEPT !.sphere = [radius |-> shape.radius]]

\* the arguments a fresh default plane or sphere builder stands for
PlaneLogDefault ==
    [normal |-> "Y", size |-> <<F(1), F(1)>>, subdivisions |-> Bytes(0), sampler |-> "None",
     offset |-> Vec2Zero, vertex_colors |-> FALSE]

SphereLogDefault ==
    [radius |-> Q(1, 2), kind |-> NoisySphereKindDefault, sampler |-> "None",
     offset |-> Vec3Zero, vertex_colors |-> FALSE]

-----------------------------------------------------------------------------
(* The fluent setters, as functions of the builder they consume            *)

\* normal() rebuilding the plane from the default instead of self.plane
PlaneSetNormal_resets_size(b, normal) ==
    [b EXCEPT !.plane = [normal |-> normal, half_size |-> NoisyPlane3dDefault.half_size]]

PlaneSetNormal(b, normal) ==
    [b EXCEPT !.plane = [normal |-> normal, half_size |-> b.plane.half_size]]

PlaneSetOffset(b, offset) == [b EXCEPT !.offset = offset]

PlaneSetSize(b, width, height) ==
    [b EXCEPT !.plane.half_size = Vec2Scale(<<width, height>>, Q(1, 2))]

PlaneSetSquare(b, width) ==
    [b EXCEPT !.plane.half_size = Vec2Scale(<<width, width>>, Q(1, 2))]

PlaneSetSubdivisions(b, subdivisions) == [b EXCEPT !.subdivisions = subdivisions]

PlaneSetSampler(b, sampler) == [b EXCEPT !.sampler = sampler]

PlaneSetVertexColors(b, vertex_colors) == [b EXCEPT !.vertex_colors = vertex_colors]

SphereWithRadius(shape, radius) == [shape EXCEPT !.radius = radius]

SphereSetKind(b, kind) == [b EXCEPT !.kind = kind]

SphereSetSampler(b, sampler) == [b EXCEPT !.sampler = sampler]

SphereSetOffset(b, offset) == [b EXCEPT !.offset = offset]

SphereSetVertexColors(b, vertex_colors) == [b EXCEPT !.vertex_colors = vertex_colors]

-----------------------------------------------------------------------------
(* The state machine: one action per public operation                      *)

IsPlaneBuilder == builder.type = "NoisyPlaneMeshBuilder"

IsSphereBuilder == builder.type = "NoisySphereMeshBuilder"

Init ==
    /\ profile \in {"debug", "release"}
    /\ \/ builder = NoisyPlaneMeshBuilderDefault /\ lastSet = PlaneLogDefault
       \/ builder = NoisyPlane3dDefault /\ lastSet = PlaneLogDefault
       \/ builder = NoisySphereMeshBuilderDefault /\ lastSet = SphereLogDefault
       \/ builder = NoisySphereDefault /\ lastSet = SphereLogDefault
    /\ mesh = NoMesh

\* the call returned the value now held, configured by the calls logged in
\* `log`; it returned no mesh
Logged(log) ==
    /\ lastSet' = log
    /\ mesh' = NoMesh
    /\ UNCHANGED profile

\* the call returned `m` and left the configuration alone
Returns(m) ==
    /\ mesh' = m
    /\ UNCHANGED <<builder, lastSet, profile>>

\* the mesh the last call returned, if it was a build that returned one
Built == mesh.tag = "mesh"

PlaneShapeLiteral(normal, half_size) ==
    /\ builder' = [type |-> "NoisyPlane3d", normal |-> normal, half_size |-> half_size]
    /\ Logged([PlaneLogDefault EXCEPT
                  !.normal = normal, !.size = Vec2Scale(half_size, F(2))])

PlaneShapeDefault ==
    /\ builder' = NoisyPlane3dDefault
    /\ Logged(PlaneLogDefault)

PlaneShapeMesh ==
    /\ builder.type = "NoisyPlane3d"
    /\ builder' = NoisyPlane3dMesh(builder)
    /\ Logged(lastSet)

PlaneShapeIntoMesh ==
    /\ builder.type = "NoisyPlane3d"
    /\ Returns(PlaneBuild(NoisyPlane3dMesh(builder), profile))

PlaneDefault ==
    /\ builder' = NoisyPlaneMeshBuilderDefault
    /\ Logged(PlaneLogDefault)

PlaneNew(normal, size) ==
    /\ builder' = NoisyPlaneMeshBuilderNew(normal, size)
    /\ Logged([PlaneLogDefault EXCEPT !.normal = normal, !.size = size])

PlaneFromSize(size) ==
    /\ builder' = NoisyPlaneMeshBuilderFromSize(size)
    /\ Logged([PlaneLogDefault EXCEPT !.size = size])

PlaneFromLength(length) ==
    /\ builder' = NoisyPlaneMeshBuilderFromLength(length)
    /\ Logged([PlaneLogDefault EXCEPT !.size = <<length, length>>])

PlaneNormal(normal) ==
    /\ IsPlaneBuilder
    /\ builder' = PlaneSetNormal(builder, normal)
    /\ Logged([lastSet EXCEPT !.normal = normal])

PlaneOffset(offset) ==
    /\ IsPlaneBuilder
    /\ builder' = PlaneSetOffset(builder, offset)
    /\ Logged([lastSet EXCEPT !.offset = offset])

PlaneSize(width, height) ==
    /\ IsPlaneBuilder
    /\ builder' = PlaneSetSize(builder, width, height)
    /\ Logged([lastSet EXCEPT !.size = <<width, height>>])

PlaneSquare(width) ==
    /\ IsPlaneBuilder
    /\ builder' = PlaneSetSquare(builder, width)
    /\ Logged([lastSet EXCEPT !.size = <<width, width>>])

PlaneSubdivisions(subdivisions) ==
    /\ IsPlaneBuilder
    /\ builder' = PlaneSetSubdivisions(builder, subdivisions)
    /\ Logged([lastSet EXCEPT !.subdivisions = subdivisions])

PlaneSampler(sampler) ==
    /\ IsPlaneBuilder
    /\ builder' = PlaneSetSampler(builder, sampler)
    /\ Logged([lastSet EXCEPT !.sampler = sampler])

PlaneVertexColors(vertex_colors) ==
    /\ IsPlaneBuilder
    /\ builder' = PlaneSetVertexColors(builder, vertex_colors)
    /\ Logged([lastSet EXCEPT !.vertex_colors = vertex_colors])

PlaneBuildCall ==
    /\ IsPlaneBuilder
    /\ Returns(PlaneBuild(builder, profile))

SphereShapeDefault ==
    /\ builder' = NoisySphereDefault
    /\ Logged(SphereLogDefault)

SphereShapeNew(radius) ==
    /\ builder' = NoisySphereNew(radius)
    /\ Logged([SphereLogDefault EXCEPT !.radius = radius])

SphereShapeWithRadius(radius) ==
    /\ builder.type = "NoisySphere"
    /\ builder' = SphereWithRadius(builder, radius)
    /\ Logged([lastSet EXCEPT !.radius = radius])

SphereShapeMesh ==
    /\ builder.type = "NoisySphere"
    /\ builder' = NoisySphereMesh(builder)
    /\ Logged(lastSet)

SphereShapeIntoMesh ==
    /\ builder.type = "NoisySphere"
    /\ Returns(SphereBuild(NoisySphereMesh(builder)))

SphereDefault ==
    /\ builder' = NoisySphereMeshBuilderDefault
    /\ Logged(SphereLogDefault)

SphereNew(radius, kind) ==
    /\ builder' = NoisySphereMeshBuilderNew(radius, kind)
    /\ Logged([SphereLogDefault EXCEPT !.radius = radius, !.kind = kind])

SphereKind(kind) ==
    /\ IsSphereBuilder
    /\ builder' = SphereSetKind(builder, kind)
    /\ Logged([lastSet EXCEPT !.kind = kind])

SphereSampler(sampler) ==
    /\ IsSphereBuilder
    /\ builder' = SphereSetSampler(builder, sampler)
    /\ Logged([lastSet EXCEPT !.sampler = sampler])

SphereOffset(offset) ==
    /\ IsSphereBuilder
    /\ builder' = SphereSetOffset(builder, offset)
    /\ Logged([lastSet EXCEPT !.offset = offset])

SphereVertexColors(vertex_colors) ==
    /\ IsSphereBuilder
    /\ builder' = SphereSetVertexColors(builder, vertex_colors)
    /\ Logged([lastSet EXCEPT !.vertex_colors = vertex_colors])

SphereBuildCall ==
    /\ IsSphereBuilder
    /\ Returns(SphereBuild(builder))

Next ==
    \/ \E normal \in Normals, w \in Lengths, h \in Lengths : PlaneShapeLiteral(normal, <<w, h>>)
    \/ PlaneShapeDefault
    \/ PlaneShapeMesh
    \/ PlaneShapeIntoMesh
    \/ PlaneDefault
    \/ \E normal \in Normals, w \in Lengths, h \in Lengths : PlaneNew(normal, <<w, h>>)
    \/ \E w \in Lengths, h \in Lengths : PlaneFromSize(<<w, h>>)
    \/ \E length \in Lengths : PlaneFromLength(length)
    \/ \E normal \in Normals : PlaneNormal(normal)
    \/ \E offset \in Offsets2 : PlaneOffset(offset)
    \/ \E w \in Lengths, h \in Lengths : PlaneSize(w, h)
    \/ \E w \in Lengths : PlaneSquare(w)
    \/ \E subdivisions \in SubdivisionCounts : PlaneSubdivisions(subdivisions)
    \/ \E sampler \in Samplers : PlaneSampler(sampler)
    \/ \E vertex_colors \in BOOLEAN : PlaneVertexColors(vertex_colors)
    \/ PlaneBuildCall
    \/ SphereShapeDefault
    \/ \E radius \in Radii : SphereShapeNew(radius)
    \/ \E radius \in Radii : SphereShapeWithRadius(radius)
    \/ SphereShapeMesh
    \/ SphereShapeIntoMesh
    \/ SphereDefault
    \/ \E radius \in Radii, kind \in SphereKinds : SphereNew(radius, kind)
    \/ \E kind \in SphereKinds : SphereKind(kind)
    \/ \E sampler \in Samplers : SphereSampler(sampler)
    \/ \E offset \in Offsets3 : SphereOffset(offset)
    \/ \E vertex_colors \in BOOLEAN : SphereVertexColors(vertex_colors)
    \/ SphereBuildCall

Spec == Init /\ [][Next]_vars

-----------------------------------------------------------------------------
(* Vocabulary of the properties                                            *)

RECURSIVE BigLtFrom(_, _, _)
\* a < b, comparing from byte i down
BigLtFrom(a, b, i) ==
    IF i = 0 THEN FALSE
    ELSE IF a[i] # b[i] THEN a[i] < b[i]
    ELSE BigLtFrom(a, b, i - 1)

BigLt(a, b) == BigLtFrom(a, b, WideBytes)

\* s + 2, (s + 2)^2 and 6 (s + 1)^2 as numbers, for the configured s
MathN(b) == BigAdd(b.subdivisions, Bytes(2))

MathVertices(b) == BigMul(MathN(b), MathN(b))

MathIndices(b) ==
    LET m == BigAdd(b.subdivisions, Bytes(1)) IN BigMul(BigMul(m, m), Bytes(6))

\* the last call was a build of a plane (build(), or Mesh::from on the shape)
PlaneBuilt == builder.type \in {"NoisyPlane3d", "NoisyPlaneMeshBuilder"} /\ mesh.tag # "none"

\* the configuration that build read
PlaneConfig == IF IsPlaneBuilder THEN builder ELSE NoisyPlane3dMesh(builder)

SphereBuilt == builder.type \in {"NoisySphere", "NoisySphereMeshBuilder"} /\ mesh.tag # "none"

SphereConfig == IF IsSphereBuilder THEN builder ELSE NoisySphereMesh(builder)

BuildConfig == IF PlaneBuilt THEN PlaneConfig ELSE SphereConfig

\* the six index offsets of a cell from its corner `quad`, n vertices per row
QuadPattern(n, quad) ==
    <<quad + n + 1, quad + 1, quad + n, quad, quad + n, quad + 1>>

CellCorners(n, quad) == {quad, quad + 1, quad + n, quad + n + 1}

\* the index buffer is the cells' patterns, z-major then x, every triple
\* three distinct corners of its cell, and vertex z*n + x is the one
\* generated for (x, z)
GridLayout(b, m, n) ==
    /\ Len(m.indices) = 6 * (n - 1) * (n - 1)
    /\ \A z \in 0..(n - 2), x \in 0..(n - 2) :
          LET quad == z * n + x
              at   == 6 * (z * (n - 1) + x)
              six  == [k \in 1..6 |-> m.indices[at + k]]
          IN  /\ six = QuadPattern(n, quad)
              /\ \A t \in {0, 3} :
                    /\ Cardinality({six[t + 1], six[t + 2], six[t + 3]}) = 3
                    /\ {six[t + 1], six[t + 2], six[t + 3]} \subseteq CellCorners(n, quad)
    /\ Len(m.positions) = n * n
    /\ \A z \in 0..(n - 1), x \in 0..(n - 1) :
          /\ m.uvs[z * n + x + 1] = <<Q(x, n - 1), Q(z, n - 1)>>
          /\ m.positions[z * n + x + 1] = PlaneVertex(b, n, x, z).pos

UnitInterval(a) == FLe(F(0), a) /\ FLe(a, F(1))

\* every UV is (x/(n-1), z/(n-1)) and so within [0,1], (0,0) at the first
\* corner of the grid and (1,1) at the opposite one
GridUVs(m, n) ==
    /\ Len(m.uvs) = n * n
    /\ \A z \in 0..(n - 1), x \in 0..(n - 1) :
          LET uv == m.uvs[z * n + x + 1]
          IN  /\ uv = <<Q(x, n - 1), Q(z, n - 1)>>
              /\ UnitInterval(uv[1]) /\ UnitInterval(uv[2])
    /\ m.uvs[1] = <<F(0), F(0)>>
    /\ m.uvs[n * n] = <<F(1), F(1)>>

HueInRange(c) == FLe(F(0), c.hue) /\ FLt(c.hue, F(360))

Negative(a) == FLt(a, F(0))

\* the radius or half-size the held value is configured with is negative
InvalidParameter ==
    CASE builder.type = "NoisySphere" -> Negative(builder.radius)
      [] builder.type = "NoisySphereMeshBuilder" -> Negative(builder.sphere.radius)
      [] builder.type = "NoisyPlane3d" ->
            Negative(builder.half_size[1]) \/ Negative(builder.half_size[2])
      [] builder.type = "NoisyPlaneMeshBuilder" ->
            Negative(builder.plane.half_size[1]) \/ Negative(builder.plane.half_size[2])

-----------------------------------------------------------------------------
(* Plane builder                                                           *)

\* C1: for every subdivision count s the builder accepts, build() produces
\* exactly (s+2)^2 positions and 6 (s+1)^2 indices, every index below (s+2)^2.
\* Fails: with s = u32::MAX a release build returns 1 position.
C1_PlaneCounts ==
    (PlaneBuilt /\ Built) =>
        /\ Bytes(Len(mesh.positions)) = MathVertices(PlaneConfig)
        /\ Bytes(Len(mesh.indices)) = MathIndices(PlaneConfig)
        /\ \A k \in 1..Len(mesh.indices) : BigLt(Bytes(mesh.indices[k]), MathVertices(PlaneConfig))

\* C2: with n = s + 2 the index buffer is, cell by cell (z-major, then x),
\* (quad+n+1, quad+1, quad+n, quad, quad+n, quad+1) with quad = z*n + x,
\* every triple three distinct corners of the cell, and vertex z*n + x is the
\* one generated for (x, z).  Fails: with s = u32::MAX a release build
\* returns an empty index buffer, where the cell (0, 0) is missing.
C2_PlaneIndexLayout ==
    (PlaneBuilt /\ Built) =>
        IF IsSmall(MathN(PlaneConfig))
        THEN GridLayout(PlaneConfig, mesh, ToNat(MathN(PlaneConfig)))
        ELSE /\ Len(mesh.indices) >= 6
             /\ mesh.indices[2] = 1 /\ mesh.indices[4] = 0 /\ mesh.indices[6] = 1
             /\ mesh.indices[3] = mesh.indices[5]
             /\ Bytes(mesh.indices[3]) = MathN(PlaneConfig)

\* C7: for every subdivision count every plane vertex's UV is
\* (x/(n-1), z/(n-1)) with n = s + 2: within [0,1], (0,0) at grid corner
\* (0,0) and (1,1) at the opposite corner; independent of normal, offset,
\* size and sampler.  Fails: with s = u32::MAX a release build returns one
\* vertex whose UV is (NaN, NaN).
C7_PlaneUVs ==
    (PlaneBuilt /\ Built) =>
        /\ \A i \in 1..Len(mesh.uvs) :
              UnitInterval(mesh.uvs[i][1]) /\ UnitInterval(mesh.uvs[i][2])
        /\ IsSmall(MathN(PlaneConfig)) => GridUVs(mesh, ToNat(MathN(PlaneConfig)))

\* C10: for every u32 subdivision count, n = s + 2, n*n, (n-1)*(n-1)*6 and
\* the indices never exceed 2^32 - 1: nothing wraps (or panics), and the
\* reserved counts are (s+2)^2 and 6 (s+1)^2.  Fails with s = u32::MAX.
C10_NoOverflow ==
    PlaneBuilt =>
        /\ Built
        /\ mesh.num_vertices = MathVertices(PlaneConfig)
        /\ mesh.num_indices = MathIndices(PlaneConfig)

\* The grid the plane claims describe is what build() returns whenever its
\* u32 arithmetic does not overflow.
PlaneGridWithoutOverflow ==
    (PlaneBuilt /\ ~PlaneCounts(PlaneConfig).overflow) =>
        /\ C1_PlaneCounts /\ C2_PlaneIndexLayout /\ C7_PlaneUVs /\ C10_NoOverflow
        /\ IsSmall(MathN(PlaneConfig))

-----------------------------------------------------------------------------
(* Both builders                                                           *)

\* C3: vertex_colors off: no color array; on: one color per position, and
\* every hue lies in [0, 360), negative samples included.  Fails: the plane's
\* hue is (py * 360) % 360 with the sign of py.
C3_ColorsAndHue ==
    Built =>
        /\ mesh.has_colors = BuildConfig.vertex_colors
        /\ ~mesh.has_colors => mesh.colors = <<>>
        /\ mesh.has_colors =>
              /\ Len(mesh.colors) = Len(mesh.positions)
              /\ \A i \in 1..Len(mesh.colors) : HueInRange(mesh.colors[i])

\* C8: a negative radius or size is surfaced as a precondition violation:
\* no mesh is returned for it.  Fails: nothing validates the parameters.
C8_InvalidParameterRejected == Built => ~InvalidParameter

\* C9: every configuration field holds the argument of the last call that
\* set it (the half-size is half the size given), or its default; a setter
\* changes its own field only, and build() changes none.
C9_ConfigurationIsLastSet ==
    /\ builder.type = "NoisyPlane3d" =>
          builder = [type |-> "NoisyPlane3d", normal |-> lastSet.normal,
                     half_size |-> Vec2Scale(lastSet.size, Q(1, 2))]
    /\ IsPlaneBuilder =>
          builder = [type          |-> "NoisyPlaneMeshBuilder",
                     plane         |-> [normal |-> lastSet.normal,
                                        half_size |-> Vec2Scale(lastSet.size, Q(1, 2))],
                     subdivisions  |-> lastSet.subdivisions,
                     sampler       |-> lastSet.sampler,
                     offset        |-> lastSet.offset,
                     vertex_colors |-> lastSet.vertex_colors]
    /\ builder.type = "NoisySphere" =>
          builder = [type |-> "NoisySphere", radius |-> lastSet.radius]
    /\ IsSphereBuilder =>
          builder = [type          |-> "NoisySphereMeshBuilder",
                     kind          |-> lastSet.kind,
                     sampler       |-> lastSet.sampler,
                     sphere        |-> [radius |-> lastSet.radius],
                     offset        |-> lastSet.offset,
                     vertex_colors |-> lastSet.vertex_colors]

\* C9's case: a build just returned for a plane builder every field of
\* which was set away from its default
C9_Witness ==
    /\ IsPlaneBuilder /\ Built
    /\ builder.plane.normal = "X"
    /\ builder.plane.half_size = <<F(0), Q(-1, 2)>>
    /\ builder.subdivisions = Bytes(1)
    /\ builder.sampler = "Low"
    /\ builder.offset # Vec2Zero
    /\ builder.vertex_colors

-----------------------------------------------------------------------------
(* Sphere builder                                                          *)

\* the base topology the held configuration builds on, and its face count
BaseOf(b) ==
    SubdividedNew(IF b.kind.variant = "Cubed" THEN "Cube" ELSE "Ico", b.kind.subdivisions)

FacesOf(b) == IF b.kind.variant = "Cubed" THEN 12 ELSE 20

\* the sample taken for raw point p, and the factor p is scaled by
SampleOf(b, p) == Sample3d(b.sampler, Vec3Sub(p, b.offset))

ScaleOf(b, p) == FMul(b.sphere.radius, FAdd(F(1), SampleOf(b, p)))

\* every position is p * radius * (1 + sample), k = 1, sampled at p - offset
Displaced(b, m) ==
    LET raw == BaseOf(b).raw_points
    IN  /\ Len(m.positions) = Len(raw)
        /\ \A i \in 1..Len(raw) :
              m.positions[i] =
                 Vec3Scale(Vec3Scale(raw[i], b.sphere.radius), FAdd(F(1), SampleOf(b, raw[i])))

\* C4 as stated, for the radii the data model allows (radius >= 0): the
\* distance of every vertex from the origin is radius * (1 + sample), for
\* every sample; radius with the none sampler; the origin with radius 0.
\* Fails where the sample is below -1: radius * (1 + sample) is negative
\* there and a distance is not.
C4_DistanceIsScale ==
    (SphereBuilt /\ Built /\ ~Negative(SphereConfig.sphere.radius)) =>
        LET b == SphereConfig  raw == BaseOf(SphereConfig).raw_points
        IN  /\ Displaced(b, mesh)
            /\ \A i \in 1..Len(raw) :
                  /\ Vec3Length(mesh.positions[i]) = ScaleOf(b, raw[i])
                  /\ b.sampler = "None" => Vec3Length(mesh.positions[i]) = b.sphere.radius
                  /\ b.sphere.radius = F(0) => mesh.positions[i] = Vec3Zero

\* C4, amended: the position is p * radius * (1 + sample) and its distance
\* from the origin is |radius * (1 + sample)|; |radius| with the none
\* sampler; the origin with radius 0.
C4_DistanceIsAbsScale ==
    (SphereBuilt /\ Built) =>
        LET b == SphereConfig  raw == BaseOf(SphereConfig).raw_points
        IN  /\ Displaced(b, mesh)
            /\ \A i \in 1..Len(raw) :
                  /\ Vec3Length(mesh.positions[i]) = FAbs(ScaleOf(b, raw[i]))
                  /\ b.sampler = "None" => Vec3Length(mesh.positions[i]) = FAbs(b.sphere.radius)
                  /\ b.sphere.radius = F(0) => mesh.positions[i] = Vec3Zero

\* C4's case: a sphere of positive radius was built with noise that samples
\* below -1 at one raw point and above 0 at another
C4_Witness ==
    /\ SphereBuilt /\ Built
    /\ FLt(F(0), SphereConfig.sphere.radius)
    /\ \E i \in 1..Len(mesh.positions) :
          FLt(SampleOf(SphereConfig, BaseOf(SphereConfig).raw_points[i]), F(-1))
    /\ \E i \in 1..Len(mesh.positions) :
          FLt(F(0), SampleOf(SphereConfig, BaseOf(SphereConfig).raw_points[i]))

\* a and b lie on one line through the origin
Collinear(a, b) ==
    /\ FSub(FMul(a[2], b[3]), FMul(a[3], b[2])) = F(0)
    /\ FSub(FMul(a[3], b[1]), FMul(a[1], b[3])) = F(0)
    /\ FSub(FMul(a[1], b[2]), FMul(a[2], b[1])) = F(0)

\* what the held configuration builds with its offset replaced
WithOffset(o) == SphereBuild([SphereConfig EXCEPT !.offset = o])

\* C5: two sphere builds that differ in offset only have the same number
\* and order of vertices, the same UVs and the same indices, and each vertex
\* lies on the line through the origin and its counterpart: the offset
\* moves the sampled coordinate, never the position.
C5_OffsetOnlyMovesTheSample ==
    (SphereBuilt /\ Built) =>
        \A o \in Offsets3 :
            LET other == WithOffset(o)
            IN  /\ other.tag = "mesh"
                /\ Len(other.positions) = Len(mesh.positions)
                /\ other.uvs = mesh.uvs
                /\ other.indices = mesh.indices
                /\ \A i \in 1..Len(mesh.positions) :
                      Collinear(mesh.positions[i], other.positions[i])

\* C5's case: a noisy sphere was built with an offset, and another offset
\* displaces some vertex differently
C5_Witness ==
    /\ SphereBuilt /\ Built
    /\ SphereConfig.sampler # "None"
    /\ SphereConfig.offset # Vec3Zero
    /\ FLt(F(0), SphereConfig.sphere.radius)
    /\ \E o \in Offsets3 : WithOffset(o).positions # mesh.positions

\* C6: the index buffer is the base faces' lists for faces 0..faces-1 in
\* order (12 for Cubed, 20 for Ico); its length is faces * indices per face,
\* a multiple of 3; every index is below the number of raw points; positions,
\* UVs and colors (when present) are one per raw point.
C6_SphereBuffers ==
    (SphereBuilt /\ Built) =>
        LET base  == BaseOf(SphereConfig)
            faces == FacesOf(SphereConfig)
            per   == base.indices_per_main_triangle
            raw   == Len(base.raw_points)
        IN  /\ Len(mesh.indices) = faces * per
            /\ \A f \in 0..(faces - 1), k \in 1..per :
                  mesh.indices[f * per + k] = base.faces[f + 1][k]
            /\ Len(mesh.indices) % 3 = 0
            /\ \A k \in 1..Len(mesh.indices) : mesh.indices[k] < raw
            /\ Len(mesh.positions) = raw
            /\ Len(mesh.uvs) = raw
            /\ mesh.has_colors => Len(mesh.colors) = raw

\* C6's case: both kinds were built above level 0, one of them with colors
C6_Witness ==
    /\ SphereBuilt /\ Built
    /\ SphereConfig.kind.subdivisions >= 1
    /\ SphereConfig.kind.variant = "Ico"
    /\ mesh.has_colors
    /\ Len(mesh.indices) = 20 * 3 * (SphereConfig.kind.subdivisions + 1) ^ 2

====
